---- MODULE Spec2Model ----
(***************************************************************************)
(* A model of the web-search aggregation layer of LLM-OS:                  *)
(*   - the per-provider fixed-window rate limiter                          *)
(*     (BaseSearchProvider.createRateLimiter),                             *)
(*   - the aggregator WebSearchAPI (provider registry, cache, search),     *)
(*   - the cache-key derivation WebSearchAPI.generateCacheKey,             *)
(*   - WebSearchManager.performMultiProviderSearch / mergeSearchResults.   *)
(* Strings are sequences of one-character strings; times are integer       *)
(* milliseconds read from the variable now (Date.now()).                   *)
(***************************************************************************)
EXTENDS Integers, Sequences, FiniteSets, TLC

\* ------------------------------------------------------------------ bounds

\* Date.now() ranges over 0..MaxTime.
MaxTime == 4
\* Configured rateLimit.requests ranges over 0..MaxRequests (0 selects the default).
MaxRequests == 2
\* Configured rateLimit.window ranges over 0..MaxWindow (0 selects the default).
MaxWindow == 2
\* The queries given to generateCacheKey have at most MaxQueryLen characters.
MaxQueryLen == 2
\* A backend answers performMultiProviderSearch with at most MaxRawResults results.
MaxRawResults == 2

\* The searches recorded into searchHistory in one run.
MaxRecorded == 3
MaxOverlapTime == 1

\* ------------------------------------------------------- program constants

\* rateLimitConfig.requests || 100
DefaultRequests == 100
\* rateLimitConfig.window || 60000
DefaultWindow == 60000
\* webSearchConfig?.cache?.ttl || 3600000
DefaultTtl == 3600000
\* webSearchConfig?.cache?.maxSize || 1000
DefaultMaxSize == 1000
\* result.relevance || 0.5, in tenths
DefaultRelevance == 5
\* relevance: 0.8 of parseSearchResponse, in tenths
KeyedRelevance == 8

\* addToSearchHistory: config.get('ui.maxConversationHistory') || 20
DefaultMaxHistory == 20

\* performAISearch: config.get('webSearch.ai.maxResultsToAnalyze') || 5
DefaultMaxResultsToAnalyze == 5

\* searchWithFilters: filters.maxResults || 10
DefaultFilterMaxResults == 10

\* ----------------------------------------------------------------- strings

\* The printable ASCII characters in code order: AsciiChars[i] has code i + 31
\* (the grave accent, code 96, is written by name).
AsciiChars == <<
    " ", "!", "\"", "#", "$", "%", "&", "'", "(", ")", "*", "+", ",", "-", ".", "/",
    "0", "1", "2", "3", "4", "5", "6", "7", "8", "9", ":", ";", "<", "=", ">", "?",
    "@", "A", "B", "C", "D", "E", "F", "G", "H", "I", "J", "K", "L", "M", "N", "O",
    "P", "Q", "R", "S", "T", "U", "V", "W", "X", "Y", "Z", "[", "\\", "]", "^", "_",
    "grave", "a", "b", "c", "d", "e", "f", "g", "h", "i", "j", "k", "l", "m", "n", "o",
    "p", "q", "r", "s", "t", "u", "v", "w", "x", "y", "z", "{", "|", "}", "~"
>>

\* The code of every printable ASCII character.
CharCodes ==
    [ c \in {AsciiChars[i] : i \in 1..Len(AsciiChars)} |->
        31 + CHOOSE i \in 1..Len(AsciiChars) : AsciiChars[i] = c ]

\* charCodeAt of a one-character string.
CharCode(c) == CharCodes[c]

\* The base64 alphabet, then the padding character.
Base64Chars == <<
    "A", "B", "C", "D", "E", "F", "G", "H", "I", "J", "K", "L", "M", "N", "O", "P",
    "Q", "R", "S", "T", "U", "V", "W", "X", "Y", "Z", "a", "b", "c", "d", "e", "f",
    "g", "h", "i", "j", "k", "l", "m", "n", "o", "p", "q", "r", "s", "t", "u", "v",
    "w", "x", "y", "z", "0", "1", "2", "3", "4", "5", "6", "7", "8", "9", "+", "/",
    "="
>>

\* String.prototype.toLowerCase on the letters the model uses.
LowerChar(c) ==
    CASE c = "A" -> "a"
      [] c = "B" -> "b"
      [] OTHER -> c

toLowerCase(s) == [i \in 1..Len(s) |-> LowerChar(s[i])]

IsWhitespace(c) == c = " "

RECURSIVE trimStart(_)
trimStart(s) ==
    IF s # <<>> /\ IsWhitespace(Head(s)) THEN trimStart(Tail(s)) ELSE s

RECURSIVE trimEnd(_)
trimEnd(s) ==
    IF s # <<>> /\ IsWhitespace(s[Len(s)]) THEN trimEnd(SubSeq(s, 1, Len(s) - 1)) ELSE s

\* String.prototype.trim
trim(s) == trimEnd(trimStart(s))

RECURSIVE Concat(_)
Concat(ss) == IF ss = <<>> THEN <<>> ELSE Head(ss) \o Concat(Tail(ss))

\* The decimal digits of a natural number, as JSON.stringify writes a number.
RECURSIVE NumberString(_)
NumberString(n) ==
    IF n < 10 THEN <<AsciiChars[17 + n]>>
    ELSE NumberString(n \div 10) \o <<AsciiChars[17 + (n % 10)]>>

\* JSON's escaping of one character of a string: the quote and the backslash
\* are written with a backslash before them.
JSONEscapeChar(c) ==
    IF c = "\"" \/ c = "\\" THEN <<"\\", c>> ELSE <<c>>

\* JSON.stringify of a string.
JSONString(s) ==
    <<"\"">> \o Concat([i \in 1..Len(s) |-> JSONEscapeChar(s[i])]) \o <<"\"">>

\* JSON.stringify of a property value: a number [num |-> n] or a string [str |-> s].
JSONValue(v) ==
    IF "num" \in DOMAIN v THEN NumberString(v.num) ELSE JSONString(v.str)

\* JSON.stringify of an object given as the sequence of its own properties
\* [k |-> name, v |-> value], in property order.
JSONObject(props) ==
    <<"{">>
    \o Concat([i \in 1..Len(props) |->
                 (IF i > 1 THEN <<",">> ELSE <<>>)
                 \o JSONString(props[i].k) \o <<":">> \o JSONValue(props[i].v)])
    \o <<"}">>

\* btoa: base64 of a string of characters with codes below 256.
RECURSIVE btoa(_)
btoa(s) ==
    IF s = <<>> THEN <<>>
    ELSE LET a == CharCode(s[1]) IN
         IF Len(s) = 1
         THEN << Base64Chars[1 + (a \div 4)], Base64Chars[1 + ((a % 4) * 16)], "=", "=" >>
         ELSE LET b == CharCode(s[2]) IN
              IF Len(s) = 2
              THEN << Base64Chars[1 + (a \div 4)],
                      Base64Chars[1 + ((a % 4) * 16 + (b \div 16))],
                      Base64Chars[1 + ((b % 16) * 4)], "=" >>
              ELSE LET c == CharCode(s[3]) IN
                   << Base64Chars[1 + (a \div 4)],
                      Base64Chars[1 + ((a % 4) * 16 + (b \div 16))],
                      Base64Chars[1 + ((b % 16) * 4 + (c \div 64))],
                      Base64Chars[1 + (c % 64)] >>
                   \o btoa(SubSeq(s, 4, Len(s)))

\* The strings the model writes as literals.
QueryName == <<"q", "u", "e", "r", "y">>
OptionsName == <<"o", "p", "t", "i", "o", "n", "s">>
MaxResultsName == <<"m", "a", "x", "R", "e", "s", "u", "l", "t", "s">>
RegionName == <<"r", "e", "g", "i", "o", "n">>

\* ------------------------------------------------------------- cache keys

NormalizeQueryNoTrim(query) == toLowerCase(query)

\* query.toLowerCase().trim()
NormalizeQuery(query) == trim(toLowerCase(query))

\* The keyData object of generateCacheKey.
KeyData(query, options) ==
    << [k |-> QueryName, v |-> [str |-> NormalizeQuery(query)]],
       [k |-> OptionsName, v |-> [str |-> JSONObject(options)]] >>

\* WebSearchAPI.generateCacheKey for a string query.
generateCacheKey(query, options) == btoa(JSONObject(KeyData(query, options)))

VARIABLES
    now,        \* Date.now()
    limiter,    \* a rate limiter object made by createRateLimiter
    rlCalls,    \* history: checkLimit() calls made in the limiter's current window
    rlLast,     \* history: the last limiter call, its result and the state before it
    keyIn,      \* two (query, options) inputs of generateCacheKey
    keyOut,     \* the two keys computed from keyIn, or <<>> before the computation
    cfg,        \* the webSearch configuration (read-only after startup)
    providers,  \* WebSearchAPI.providers: the registered names, in insertion order
    provLimiter,    \* provider.rateLimiter of each registered provider
    rateLimiters,   \* WebSearchAPI.rateLimiters: provider name -> limiter
    searchCache,    \* WebSearchAPI.searchCache: entries in Map insertion order
    calls,      \* the search() calls: idle, or suspended at  await provider.search
    invoked,    \* history: requests sent by provider.search, per provider, in its first window
    sinceEmpty, \* history: the keys stored since the cache was last empty
    last,       \* history: the aggregator step just taken and what it observed
    multi,      \* the performMultiProviderSearch call: its provider calls and result
    mgr,        \* WebSearchManager: searchHistory, the call in progress, its outcome
    ui          \* AppState.uiState, the sections' DOM classes, the saved state

limiterVars == <<limiter, rlCalls, rlLast>>
keyVars == <<keyIn, keyOut>>
aggVars == <<cfg, providers, provLimiter, rateLimiters, searchCache, calls, invoked,
             sinceEmpty, last>>

vars == <<now, limiter, rlCalls, rlLast, keyIn, keyOut, cfg, providers, provLimiter,
          rateLimiters, searchCache, calls, invoked, sinceEmpty, last, multi, mgr,
          ui>>

\* ------------------------------------------------------------ rate limiter

\* JavaScript's  v || d  on numbers: 0 (falsy) selects the default.
OrDefault(v, d) == IF v = 0 THEN d ELSE v

\* The absent limiter (createRateLimiter returns null without a rateLimit config).
NoLimiter == [none |-> TRUE]
NoRateLimit == [none |-> TRUE]
IsNoLimiter(l) == "none" \in DOMAIN l

createRateLimiter(rateLimitConfig, t) ==
    IF "none" \in DOMAIN rateLimitConfig
    THEN NoLimiter
    ELSE [ requests        |-> OrDefault(rateLimitConfig.requests, DefaultRequests),
           window          |-> OrDefault(rateLimitConfig.window, DefaultWindow),
           currentRequests |-> 0,
           resetTime       |-> t + OrDefault(rateLimitConfig.window, DefaultWindow) ]

WindowPassedAtBoundary(l, t) == t >= l.resetTime

\* The test  now > this.resetTime  at the head of checkLimit.
WindowPassed(l, t) == t > l.resetTime

\* The lazy rollover at the head of checkLimit.
Rollover(l, t) ==
    IF WindowPassed(l, t)
    THEN [l EXCEPT !.currentRequests = 0, !.resetTime = t + l.window]
    ELSE l

AdmitsOffByOne(l) == ~(l.currentRequests > l.requests)

\* The admission test of checkLimit on the (rolled over) limiter.
Admits(l) == ~(l.currentRequests >= l.requests)

\* checkLimit() at time t: the limiter after the call, the value returned, and
\* whether the call reset the counter.
checkLimit(l, t) ==
    LET r == Rollover(l, t) IN
    IF Admits(r)
    THEN [ state |-> [r EXCEPT !.currentRequests = r.currentRequests + 1],
           ret |-> TRUE, rolled |-> WindowPassed(l, t) ]
    ELSE [ state |-> r, ret |-> FALSE, rolled |-> WindowPassed(l, t) ]

resetKeepsCounter(l, t) == [l EXCEPT !.resetTime = t + l.window]

\* reset() at time t.
reset(l, t) == [l EXCEPT !.currentRequests = 0, !.resetTime = t + l.window]

RateLimitConfigs ==
    [requests : 0..MaxRequests, window : 0..MaxWindow]

\* afterReset: the window the call was made in was started by reset().
NoCall == [op |-> "none", ret |-> FALSE, rolled |-> FALSE, at |-> 0,
           pre |-> NoLimiter, callsBefore |-> 0, afterReset |-> FALSE,
           inResetWindow |-> FALSE]


Min(a, b) == IF a < b THEN a ELSE b

\* -------------------------------------------------------------- providers

\* search(null): the query that is no string.
Null == <<"null">>
IsNull(query) == query = Null

\* The queries and options given to search().
AggQueries == { Null, <<>>, <<" ">>, <<"a">>, <<"A", " ">>, <<"b">> }

AggOptions == { <<>>, <<[k |-> MaxResultsName, v |-> [num |-> 5]]>> }

\* The filters given to searchWithFilters; 0 and "" stand for a filter not given.
NoFilters == [maxResults |-> 0, minRelevance |-> 0, contentType |-> ""]

ManagerFilters ==
    [maxResults : {0, 5}, minRelevance : {0, 5, 8}, contentType : {"", "article"}]

\* The options performAISearch passes to search(): { maxResults: ... || 5 }
AIOptions == <<[k |-> MaxResultsName, v |-> [num |-> DefaultMaxResultsToAnalyze]]>>

\* The searchOptions of searchWithFilters; JSON.stringify leaves out dateRange,
\* language, region and safeSearch when they are undefined.
FilterOptions(filters) ==
    <<[k |-> MaxResultsName,
       v |-> [num |-> IF filters.maxResults = 0 THEN DefaultFilterMaxResults
                      ELSE filters.maxResults]]>>

ManagerOptions == {AIOptions} \cup {FilterOptions(f) : f \in ManagerFilters}

\* generateCacheKey of every string query and options object given to search().
CacheKeys ==
    [ qo \in (AggQueries \ {Null}) \X (AggOptions \cup ManagerOptions) |->
        generateCacheKey(qo[1], qo[2]) ]

validateQueryAcceptsBlank(query) ==
    IF IsNull(query) \/ query = <<>>
    THEN [err |-> "Query must be a non-empty string", value |-> <<>>]
    ELSE [err |-> "", value |-> trim(query)]

\* BaseSearchProvider.validateQuery: the error thrown ("" when none) and the
\* trimmed query returned.
validateQuery(query) ==
    IF IsNull(query) \/ query = <<>>
    THEN [err |-> "Query must be a non-empty string", value |-> <<>>]
    ELSE IF Len(trim(query)) = 0
         THEN [err |-> "Query cannot be empty", value |-> <<>>]
         ELSE [err |-> "", value |-> trim(query)]

\* WebSearchAPI.getProviderClass: the names that have a provider class.
KnownProviders == {"duckduckgo", "google", "bing"}

initializeProvidersIgnoringEnabled(config) ==
    LET on == SelectSeq(config.providers, LAMBDA pc : pc.name \in KnownProviders)
    IN [i \in 1..Len(on) |-> on[i].name]

\* The providers that need credentials from the configuration.
KeyedProviders == {"google", "bing"}

\* initializeProviders: the names registered, in configuration order.
initializeProviders(config) ==
    LET on == SelectSeq(config.providers,
                        LAMBDA pc : pc.enabled /\ pc.name \in KnownProviders)
    IN [i \in 1..Len(on) |-> on[i].name]

ProviderConfig(config, name) ==
    config.providers[CHOOSE i \in 1..Len(config.providers) : config.providers[i].name = name]

\* BaseSearchProvider.constructor: this.rateLimiter of every registered provider.
InitialProviderLimiters(config, t) ==
    LET names == initializeProviders(config) IN
    [ name \in {names[i] : i \in 1..Len(names)} |->
        createRateLimiter(ProviderConfig(config, name).rateLimit, t) ]

\* WebSearchAPI.constructor: this.rateLimiters = new Map(); nothing is ever set in it.
InitialRateLimiters(config) == [name \in {} |-> NoLimiter]

\* The synchronous head of <Provider>.search: the error thrown before any
\* request is sent ("" when none), and whether the request (fetch) is sent.
ProviderSearchSync(config, name, query) ==
    LET v == validateQuery(query) IN
    IF v.err # ""
    THEN [err |-> v.err, fetched |-> FALSE]
    ELSE IF name \in KeyedProviders /\ ~ProviderConfig(config, name).credentials
         THEN [err |-> "requires API key", fetched |-> FALSE]
         ELSE [err |-> "", fetched |-> TRUE]

\* BaseSearchProvider.normalizeResults on the raw results of a response.
normalizeResults(name, rawResults) ==
    [ i \in 1..Len(rawResults) |->
        [ title     |-> rawResults[i].title,
          url       |-> rawResults[i].url,
          relevance |-> OrDefault(rawResults[i].relevance, DefaultRelevance),
          provider  |-> name,
          cached    |-> FALSE ] ]

\* GoogleSearch / BingSearch parseSearchResponse: every item gets relevance 0.8.
parseSearchResponse(rawResults) ==
    [i \in 1..Len(rawResults) |-> [rawResults[i] EXCEPT !.relevance = KeyedRelevance]]

\* The results a provider's search returns for a successful response.
ProviderResults(name, rawResults) ==
    normalizeResults(name, IF name \in KeyedProviders
                           THEN parseSearchResponse(rawResults)
                           ELSE rawResults)

\* ------------------------------------------------------------- aggregator

checkRateLimitOfProvider(limiters, name, t) ==
    [ret |-> checkLimit(provLimiter[name], t).ret, limiters |-> limiters]

\* WebSearchAPI.checkRateLimit: the value returned and the rateLimiters map after it.
checkRateLimit(limiters, name, t) ==
    IF name \notin DOMAIN limiters \/ IsNoLimiter(limiters[name])
    THEN [ret |-> TRUE, limiters |-> limiters]
    ELSE LET c == checkLimit(limiters[name], t) IN
         [ret |-> c.ret, limiters |-> [limiters EXCEPT ![name] = c.state]]

\* The filter of selectProvider: the providers whose checkRateLimit returned
\* true, in order, and the rateLimiters map after the checks.
RECURSIVE FilterNonRateLimited(_, _, _)
FilterNonRateLimited(names, limiters, t) ==
    IF names = <<>>
    THEN [passed |-> <<>>, limiters |-> limiters]
    ELSE LET c == checkRateLimit(limiters, Head(names), t)
             rest == FilterNonRateLimited(Tail(names), c.limiters, t)
         IN [ passed |-> (IF c.ret THEN <<Head(names)>> ELSE <<>>) \o rest.passed,
              limiters |-> rest.limiters ]

\* WebSearchAPI.selectProvider: the provider chosen ("none" for null) and the
\* rateLimiters map after the selection.
selectProvider(names, limiters, t) ==
    IF Len(names) = 0
    THEN [provider |-> "none", limiters |-> limiters]
    ELSE LET f == FilterNonRateLimited(names, limiters, t) IN
         IF Len(f.passed) > 0
         THEN [provider |-> f.passed[1], limiters |-> f.limiters]
         ELSE [provider |-> names[1], limiters |-> f.limiters]

isCacheEnabledAlways(config) == TRUE

\* WebSearchAPI.isCacheEnabled
isCacheEnabled(config) == config.cacheEnabled # FALSE

isCacheExpiredAtTtl(config, timestamp, t) ==
    t - timestamp >= OrDefault(config.ttl, DefaultTtl)

\* WebSearchAPI.isCacheExpired
isCacheExpired(config, timestamp, t) ==
    t - timestamp > OrDefault(config.ttl, DefaultTtl)

\* searchCache.has / get: the position of the key's entry, 0 when absent.
CacheIndex(cache, key) ==
    IF \E i \in 1..Len(cache) : cache[i].key = key
    THEN CHOOSE i \in 1..Len(cache) : cache[i].key = key
    ELSE 0

\* searchCache.delete of the entry at position i.
RemoveAt(cache, i) == SubSeq(cache, 1, i - 1) \o SubSeq(cache, i + 1, Len(cache))

\* searchCache.set: a present key keeps its position, a new key goes last.
CacheSet(cache, entry) ==
    LET i == CacheIndex(cache, entry.key) IN
    IF i = 0 THEN Append(cache, entry) ELSE [cache EXCEPT ![i] = entry]

NeedsEvictionAboveMax(config, cache) ==
    Len(cache) > OrDefault(config.maxSize, DefaultMaxSize)

\* The test  this.searchCache.size >= maxSize  of cacheResults.
NeedsEviction(config, cache) ==
    Len(cache) >= OrDefault(config.maxSize, DefaultMaxSize)

EvictLast(cache) == SubSeq(cache, 1, Len(cache) - 1)

\* const firstKey = this.searchCache.keys().next().value;
\* this.searchCache.delete(firstKey): the first entry in insertion order goes.
EvictFirst(cache) == Tail(cache)

\* WebSearchAPI.cacheResults at time t.
cacheResults(config, cache, key, results, t) ==
    LET kept == IF NeedsEviction(config, cache) /\ cache # <<>>
                THEN EvictFirst(cache) ELSE cache
    IN CacheSet(kept, [key |-> key, results |-> results, timestamp |-> t])

NoEntry == [key |-> <<>>, results |-> <<>>, timestamp |-> -1]

TouchOnCacheHit(cache, idx, t) == [cache EXCEPT ![idx].timestamp = t]

\* The cache after a live entry was read: search() returns cached.results and
\* writes nothing.
OnCacheHit(cache, idx, t) == cache

\* What the synchronous part of search() did, up to its first suspension.
Step(outcome, err, key, provider, fetched, results, cache, limiters, entry) ==
    [ outcome |-> outcome, err |-> err, key |-> key, provider |-> provider,
      fetched |-> fetched, results |-> results, cache |-> cache,
      limiters |-> limiters, entry |-> entry ]

\* WebSearchAPI.search from its entry to its return, its throw, or its
\* suspension at  await provider.search(query, options).
SearchSync(query, options) ==
    IF IsNull(query)
    THEN \* generateCacheKey: query.toLowerCase() on null throws a TypeError
         Step("error", "TypeError", <<>>, "none", FALSE, <<>>, searchCache,
              rateLimiters, NoEntry)
    ELSE
    LET key    == CacheKeys[<<query, options>>]
        idx    == IF isCacheEnabled(cfg) THEN CacheIndex(searchCache, key) ELSE 0
        entry  == IF idx = 0 THEN NoEntry ELSE searchCache[idx]
        hit    == idx # 0 /\ ~isCacheExpired(cfg, entry.timestamp, now)
        cache1 == IF idx # 0 /\ ~hit THEN RemoveAt(searchCache, idx) ELSE searchCache
    IN
    IF hit
    THEN Step("hit", "", key, "none", FALSE, entry.results,
              OnCacheHit(searchCache, idx, now), rateLimiters, entry)
    ELSE
    LET sel == selectProvider(providers, rateLimiters, now) IN
    IF sel.provider = "none"
    THEN Step("error", "No available search providers", key, "none", FALSE, <<>>,
              cache1, sel.limiters, entry)
    ELSE
    LET chk == checkRateLimit(sel.limiters, sel.provider, now) IN
    IF ~chk.ret
    THEN Step("error", "Rate limit exceeded", key, "none", FALSE, <<>>,
              cache1, chk.limiters, entry)
    ELSE
    LET ps == ProviderSearchSync(cfg, sel.provider, query) IN
    IF ps.err # ""
    THEN Step("error", ps.err, key, sel.provider, FALSE, <<>>,
              cache1, chk.limiters, entry)
    ELSE Step("awaiting", "", key, sel.provider, TRUE, <<>>,
              cache1, chk.limiters, entry)

\* A call of search(): idle, or suspended with the cacheKey and provider it holds.
IdleCall == [pc |-> "idle", key |-> <<>>, provider |-> "none"]

\* The calls of search() that may be in progress at once.
CallIds == {1}

NoStep == [ kind |-> "none", query |-> <<>>, outcome |-> "", err |-> "",
            results |-> <<>>, provider |-> "none", fetched |-> FALSE,
            entry |-> NoEntry, sizeBefore |-> 0, cacheSame |-> TRUE,
            allLimited |-> FALSE, evicted |-> <<>>, readBefore |-> <<>> ]

Fresh == [keys |-> <<>>, ok |-> TRUE]
Broken == [keys |-> <<>>, ok |-> FALSE]

\* Whether a limiter would reject a checkLimit() made at time t.
Rejects(l, t) == ~IsNoLimiter(l) /\ ~checkLimit(l, t).ret

Range(f) == {f[x] : x \in DOMAIN f}

\* provider.search invocations that send a request are counted while the
\* provider's first window lasts.
CountInvocation(counts, name, t) ==
    IF name = "none" \/ IsNoLimiter(provLimiter[name]) \/ t > provLimiter[name].window
    THEN counts
    ELSE [counts EXCEPT ![name] = Min(@ + 1, provLimiter[name].requests + 1)]

\* ------------------------------------------------- multi-provider search

\* The key of mergeSearchResults: `${result.url}:${result.title}`
DedupKey(result) == result.url \o <<":">> \o result.title

\* The forEach of mergeSearchResults: the first result of every key, in order.
RECURSIVE Dedup(_, _)
Dedup(list, seen) ==
    IF list = <<>> THEN <<>>
    ELSE IF DedupKey(Head(list)) \in seen
         THEN Dedup(Tail(list), seen)
         ELSE <<Head(list)>> \o Dedup(Tail(list), seen \cup {DedupKey(Head(list))})

CompareAscending(a, b) == a.relevance - b.relevance

\* The comparator of the sort: (b.metadata.relevance || 0) - (a.metadata.relevance || 0)
Compare(a, b) == b.relevance - a.relevance

\* One result put into a list sorted by the comparator, after its equals.
RECURSIVE InsertByRelevance(_, _)
InsertByRelevance(sorted, x) ==
    IF sorted = <<>> THEN <<x>>
    ELSE IF Compare(Head(sorted), x) <= 0
         THEN <<Head(sorted)>> \o InsertByRelevance(Tail(sorted), x)
         ELSE <<x>> \o sorted

\* Array.prototype.sort with that comparator (a stable sort).
RECURSIVE SortByRelevance(_)
SortByRelevance(list) ==
    IF list = <<>> THEN <<>>
    ELSE InsertByRelevance(SortByRelevance(SubSeq(list, 1, Len(list) - 1)),
                           list[Len(list)])

\* WebSearchManager.mergeSearchResults
mergeSearchResults(resultsArrays) == SortByRelevance(Dedup(Concat(resultsArrays), {}))

\* One provider call of performMultiProviderSearch: pending, or settled with
\* the results it contributes ([] when it failed).
PendingSlot == [settled |-> FALSE, failed |-> FALSE, rejected |-> FALSE, results |-> <<>>]
SettledSlot(failed, results) ==
    [settled |-> TRUE, failed |-> failed, rejected |-> FALSE, results |-> results]

RethrowFailure == [SettledSlot(TRUE, <<>>) EXCEPT !.rejected = TRUE]

\* The handler  .catch(error => { warn; return []; })  on a provider call that
\* threw: the promise is fulfilled with no results.
CatchFailure == SettledSlot(TRUE, <<>>)

PromiseAllInCompletionOrder(slots, order) ==
    [k \in 1..Len(order) |-> slots[order[k]].results]

\* await Promise.all(searchPromises): the values in the order of the promises
\* (the providers' registration order), whatever the order they settled in.
PromiseAll(slots, order) == [i \in 1..Len(slots) |-> slots[i].results]

SelectedProviderOnly(registered) ==
    IF registered = <<>> THEN <<>> ELSE <<registered[1]>>

\* const providers = Array.from(this.webSearchAPI.providers.values()): the
\* providers performMultiProviderSearch calls, whatever the cache and the
\* rate limiters hold.
MultiProviders(registered) == registered

\* What a provider call was answered with, before any answer.
NoAnswer == [ok |-> FALSE, raw |-> <<>>]

\* The call of performMultiProviderSearch; answers and order are history: what
\* every provider call came back with, and the order the calls settled in.
NoMulti == [pc |-> "idle", query |-> <<>>, slots |-> <<>>, merged |-> <<>>, fetched |-> 0,
            started |-> 0, answers |-> <<>>, order |-> <<>>]

\* ------------------------------------------------------ WebSearchManager

NoResultsAnalysis == "No search results found for the given query."
FallbackAnalysis == "Unable to analyze search results due to an error."

\* What ollamaAPI.chat returns when it succeeds.
ModelAnalysis == "analysis"

NoResultsNever(results) == FALSE

\* The test  searchResults.length === 0  of performAISearch.
NoResults(results) == Len(results) = 0

analyzeSearchResultsRethrows(chatOk) ==
    IF chatOk THEN [threw |-> FALSE, analysis |-> ModelAnalysis]
    ELSE [threw |-> TRUE, analysis |-> ""]

\* analyzeSearchResults: the chat's answer, or the fallback text when the chat
\* call threw (the catch returns it and rethrows nothing).
analyzeSearchResults(chatOk) ==
    IF chatOk THEN [threw |-> FALSE, analysis |-> ModelAnalysis]
    ELSE [threw |-> FALSE, analysis |-> FallbackAnalysis]

addToSearchHistoryNoTruncate(history, record, uiMax) == <<record>> \o history

\* addToSearchHistory: unshift, then slice(0, maxHistory) when longer.
addToSearchHistory(history, record, uiMax) ==
    LET maxHistory == OrDefault(uiMax, DefaultMaxHistory)
        grown == <<record>> \o history
    IN IF Len(grown) > maxHistory THEN SubSeq(grown, 1, maxHistory) ELSE grown

\* result.metadata.contentType: normalizeResults sets no such field.
ContentTypeOf(result) ==
    IF "contentType" \in DOMAIN result THEN result.contentType ELSE "undefined"

MeetsMinRelevanceStrict(result, minRelevance) ==
    OrDefault(result.relevance, 0) > minRelevance

\* (result.metadata.relevance || 0) >= filters.minRelevance
MeetsMinRelevance(result, minRelevance) ==
    OrDefault(result.relevance, 0) >= minRelevance

\* The client-side filters of searchWithFilters.
applyFilters(results, filters) ==
    LET byType == IF filters.contentType # ""
                  THEN SelectSeq(results,
                                 LAMBDA r : ContentTypeOf(r) = filters.contentType)
                  ELSE results
    IN IF filters.minRelevance # 0
       THEN SelectSeq(byType, LAMBDA r : MeetsMinRelevance(r, filters.minRelevance))
       ELSE byType

\* What the last manager call came back with, and what went on during it.
NoOut == [ kind |-> "none", outcome |-> "", query |-> <<>>, filters |-> NoFilters,
           searched |-> <<>>, results |-> <<>>, analysis |-> "",
           chatCalls |-> 0, chatFailed |-> FALSE, recorded |-> FALSE ]

NoManager == [ pc |-> "idle", op |-> "none", query |-> <<>>, filters |-> NoFilters,
               results |-> <<>>, history |-> <<>>, uiMax |-> 0,
               serial |-> 0, sinceClear |-> 0, out |-> NoOut ]

\* performAISearch once  await this.webSearchAPI.search(...)  has settled.
AIAfterSearch(m, threw, results) ==
    IF threw
    THEN [m EXCEPT !.pc = "idle", !.op = "none",
                   !.out = [NoOut EXCEPT !.kind = "ai", !.outcome = "error",
                                         !.query = m.query]]
    ELSE IF NoResults(results)
    THEN [m EXCEPT !.pc = "idle", !.op = "none",
                   !.out = [NoOut EXCEPT !.kind = "ai", !.outcome = "ok",
                                         !.query = m.query, !.searched = results,
                                         !.results = <<>>,
                                         !.analysis = NoResultsAnalysis]]
    ELSE [m EXCEPT !.pc = "analyzing", !.results = results, !.out = NoOut]

\* searchWithFilters once  await this.webSearchAPI.search(...)  has settled.
FilteredAfterSearch(m, threw, results) ==
    IF threw
    THEN [m EXCEPT !.pc = "idle", !.op = "none",
                   !.out = [NoOut EXCEPT !.kind = "filtered", !.outcome = "error",
                                         !.query = m.query, !.filters = m.filters]]
    ELSE [m EXCEPT !.pc = "idle", !.op = "none",
                   !.out = [NoOut EXCEPT !.kind = "filtered", !.outcome = "ok",
                                         !.query = m.query, !.filters = m.filters,
                                         !.searched = results,
                                         !.results = applyFilters(results, m.filters)]]

\* The manager call resumed with the outcome of search().
AfterSearch(m, threw, results) ==
    IF m.op = "ai" THEN AIAfterSearch(m, threw, results)
    ELSE FilteredAfterSearch(m, threw, results)

\* ------------------------------------------------------- idle components

LimiterIdle ==
    /\ limiter = NoLimiter
    /\ rlCalls = 0
    /\ rlLast = NoCall

NoKeyInput == [q1 |-> <<>>, o1 |-> <<>>, q2 |-> <<>>, o2 |-> <<>>]

KeyIdle ==
    /\ keyIn = NoKeyInput
    /\ keyOut = <<>>

NoConfig == [cacheEnabled |-> TRUE, ttl |-> 0, maxSize |-> 0, providers |-> <<>>]

AggIdle ==
    /\ cfg = NoConfig
    /\ providers = <<>>
    /\ provLimiter = <<>>
    /\ rateLimiters = <<>>
    /\ searchCache = <<>>
    /\ calls = [c \in CallIds |-> IdleCall]
    /\ invoked = <<>>
    /\ sinceEmpty = Fresh
    /\ last = NoStep

MultiIdle == multi = NoMulti

MgrIdle == mgr = NoManager

\* ------------------------------------------------------------- UI sections

\* The keys of AppState.uiState.
Sections == {"sidebarVisible", "userSectionVisible", "chatSectionVisible"}

\* The uiState the AppState constructor sets.
AllVisible == [s \in Sections |-> TRUE]

NoneRevealed == [s \in Sections |-> FALSE]

canHideSectionAlways(state, sectionName) == TRUE

\* AppState.canHideSection
canHideSection(state, sectionName) ==
    Cardinality({k \in Sections : state[k]}) > 1 \/ ~state[sectionName]

\* UIManager.toggleSection on the sections' classes: 'collapsed' is set or
\* removed, 'revealed' is left as it is.
toggleSection(collapsed, sectionName, visible) ==
    [collapsed EXCEPT ![sectionName] = ~visible]

\* What is in localStorage when nothing was saved.
NothingSaved == [none |-> TRUE]

NoUiStep == [op |-> "none", section |-> "", pre |-> AllVisible, blocked |-> FALSE]

\* The state after the AppState and AppController constructors, nothing saved.
InitialUi == [ state |-> AllVisible,
               collapsed |-> [s \in Sections |-> FALSE],
               revealed |-> NoneRevealed,
               saved |-> NothingSaved,
               last |-> NoUiStep ]

UiIdle == ui = InitialUi

\* Date.now() advances.
Tick ==
    /\ now < MaxTime
    /\ now' = now + 1

\* ------------------------------------------- rate limiter: specification

LimiterInit ==
    /\ now = 0
    /\ KeyIdle
    /\ AggIdle
    /\ MultiIdle
    /\ MgrIdle
    /\ UiIdle
    /\ \E c \in RateLimitConfigs : limiter = createRateLimiter(c, 0)
    /\ rlCalls = 0
    /\ rlLast = NoCall

\* A caller invokes limiter.checkLimit().
LimiterCheckLimit ==
    LET c == checkLimit(limiter, now) IN
    /\ limiter' = c.state
    /\ rlCalls' = IF c.rolled THEN 1 ELSE Min(rlCalls + 1, limiter.requests + 1)
    /\ rlLast' = [op |-> "checkLimit", ret |-> c.ret, rolled |-> c.rolled, at |-> now,
                  pre |-> limiter, callsBefore |-> rlCalls,
                  afterReset |-> rlLast.inResetWindow,
                  inResetWindow |-> rlLast.inResetWindow /\ ~c.rolled]
    /\ UNCHANGED now

\* A caller invokes limiter.reset().
LimiterReset ==
    /\ limiter' = reset(limiter, now)
    /\ rlCalls' = 0
    /\ rlLast' = [op |-> "reset", ret |-> FALSE, rolled |-> FALSE, at |-> now,
                  pre |-> limiter, callsBefore |-> rlCalls,
                  afterReset |-> rlLast.inResetWindow, inResetWindow |-> TRUE]
    /\ UNCHANGED now

LimiterNext ==
    \/ (LimiterCheckLimit /\ UNCHANGED <<keyVars, aggVars, multi, mgr, ui>>)
    \/ (LimiterReset /\ UNCHANGED <<keyVars, aggVars, multi, mgr, ui>>)
    \/ (Tick /\ UNCHANGED <<limiterVars, keyVars, aggVars, multi, mgr, ui>>)

SpecLimiter == LimiterInit /\ [][LimiterNext]_vars

\* ------------------------------------------------- cache keys: specification

\* The characters of the queries given to generateCacheKey.
KeyAlphabet == {"a", "A", " ", "\""}

KeyQueries == UNION {[1..n -> KeyAlphabet] : n \in 0..MaxQueryLen}

\* The options objects given to generateCacheKey.
KeyOptions ==
    { <<>>,
      <<[k |-> MaxResultsName, v |-> [num |-> 5]]>>,
      <<[k |-> RegionName, v |-> [str |-> <<"a">>]]>> }

KeyInit ==
    /\ now = 0
    /\ LimiterIdle
    /\ AggIdle
    /\ MultiIdle
    /\ MgrIdle
    /\ UiIdle
    /\ keyIn \in [q1 : KeyQueries, o1 : KeyOptions, q2 : KeyQueries, o2 : KeyOptions]
    /\ keyOut = <<>>

\* generateCacheKey is applied to both inputs.
ComputeKeys ==
    /\ keyOut = <<>>
    /\ keyOut' = << generateCacheKey(keyIn.q1, keyIn.o1),
                    generateCacheKey(keyIn.q2, keyIn.o2) >>
    /\ UNCHANGED <<now, limiterVars, keyIn, aggVars, multi, mgr, ui>>

KeyNext == ComputeKeys

SpecKey == KeyInit /\ [][KeyNext]_vars

\* --------------------------------------------- aggregator: specification

RateLimit(requests, window) == [requests |-> requests, window |-> window]

\* One entry of webSearch.providers.
ProviderEntry(name, enabled, credentials, rateLimit) ==
    [name |-> name, enabled |-> enabled, credentials |-> credentials,
     rateLimit |-> rateLimit]

\* The default providers section: only the key-less provider is enabled.
DefaultProviders ==
    << ProviderEntry("duckduckgo", TRUE, FALSE, RateLimit(1, 60000)),
       ProviderEntry("google", FALSE, FALSE, RateLimit(2, 60000)),
       ProviderEntry("bing", FALSE, FALSE, RateLimit(1, 60000)) >>

\* Two enabled providers, the second with credentials.
TwoProviders ==
    << ProviderEntry("duckduckgo", TRUE, FALSE, RateLimit(1, 60000)),
       ProviderEntry("google", TRUE, TRUE, RateLimit(1, 60000)) >>

\* A keyed provider enabled without credentials and without a rateLimit.
KeylessBing ==
    << ProviderEntry("duckduckgo", FALSE, FALSE, RateLimit(1, 60000)),
       ProviderEntry("bing", TRUE, FALSE, NoRateLimit) >>

\* A provider name without a provider class: nothing is registered.
UnknownProvider ==
    << ProviderEntry("yahoo", TRUE, FALSE, RateLimit(1, 60000)) >>

Config(cacheEnabled, ttl, maxSize, section) ==
    [cacheEnabled |-> cacheEnabled, ttl |-> ttl, maxSize |-> maxSize,
     providers |-> section]

\* The webSearch configurations the aggregator is started with.
AggConfigs ==
    { Config(TRUE, 2, 2, TwoProviders),
      Config(TRUE, 1, 1, DefaultProviders),
      Config(FALSE, 1, 1, DefaultProviders),
      Config(TRUE, 1, 2, KeylessBing),
      Config(TRUE, 1, 1, UnknownProvider) }

\* The configurations of the runs in which the providers' limiters are called.
LimitedConfigs ==
    { Config(TRUE, 1, 1, TwoProviders),
      Config(FALSE, 1, 1, DefaultProviders) }

\* The raw result lists a provider's backend answers with.
RawResult(title, url, relevance) ==
    [title |-> title, url |-> url, relevance |-> relevance]

RawResultLists == { <<>>, <<RawResult(<<"t">>, <<"u">>, 0)>> }

\* What a request to a backend comes back with: a failure, or raw results.
Responses ==
    {[ok |-> FALSE, raw |-> <<>>]} \cup {[ok |-> TRUE, raw |-> r] : r \in RawResultLists}

\* The aggregator after its construction from the configuration config, no
\* call of search() made yet; ids names the calls that may be in progress at once.
StartedWith(config, ids) ==
    /\ now = 0
    /\ LimiterIdle
    /\ KeyIdle
    /\ MultiIdle
    /\ cfg = config
    /\ providers = initializeProviders(cfg)
    /\ provLimiter = InitialProviderLimiters(cfg, 0)
    /\ rateLimiters = InitialRateLimiters(cfg)
    /\ searchCache = <<>>
    /\ calls = [c \in ids |-> IdleCall]
    /\ invoked = [name \in Range(providers) |-> 0]
    /\ sinceEmpty = Fresh
    /\ last = NoStep

Started(config) == StartedWith(config, CallIds)

AggInit == MgrIdle /\ UiIdle /\ \E config \in AggConfigs : Started(config)

\* search(query, options) is called and runs to its return, its throw or its
\* suspension at  await provider.search(...).
SearchStart(c, query, options) ==
    /\ calls[c].pc = "idle"
    /\ \E s \in {SearchSync(query, options)} :
        /\ searchCache' = s.cache
        /\ rateLimiters' = s.limiters
        /\ calls' = IF s.outcome = "awaiting"
                    THEN [calls EXCEPT ![c] = [pc |-> "awaiting", key |-> s.key,
                                                provider |-> s.provider]]
                    ELSE calls
        /\ invoked' = IF s.fetched THEN CountInvocation(invoked, s.provider, now)
                      ELSE invoked
        /\ sinceEmpty' = IF s.cache = searchCache THEN sinceEmpty
                         ELSE IF s.cache = <<>> THEN Fresh ELSE Broken
        /\ last' = [ kind |-> "start", query |-> query,
                     outcome |-> s.outcome, err |-> s.err, results |-> s.results,
                     provider |-> s.provider, fetched |-> s.fetched,
                     entry |-> s.entry, sizeBefore |-> Len(searchCache),
                     cacheSame |-> (s.cache = searchCache),
                     allLimited |-> /\ providers # <<>>
                                    /\ \A p \in Range(providers) :
                                          Rejects(provLimiter[p], now),
                     evicted |-> <<>>, readBefore |-> <<>> ]
        /\ UNCHANGED <<now, cfg, providers, provLimiter>>

\* The history of the keys stored since the cache was last empty, after a store.
StoreHistory(h, key, max) ==
    IF ~h.ok \/ Len(h.keys) > max \/ key \in Range(h.keys)
    THEN Broken
    ELSE [keys |-> Append(h.keys, key), ok |-> TRUE]

\* The error a provider's search throws when its backend request fails.
BackendError == "search error"

FallBackToNextProvider(call, err) ==
    LET i == CHOOSE k \in 1..Len(providers) : providers[k] = call.provider IN
    IF i < Len(providers)
    THEN [call |-> [call EXCEPT !.provider = providers[i + 1]], threw |-> FALSE, err |-> ""]
    ELSE [call |-> IdleCall, threw |-> TRUE, err |-> err]

\* The catch block of search(): it logs and rethrows the error it caught; the
\* call ends there.
OnProviderFailure(call, err) == [call |-> IdleCall, threw |-> TRUE, err |-> err]

\* The backend's response arrives and the suspended search() resumes: it
\* throws on a failure, else it caches (if enabled) and returns the results.
SearchFinish(c, response) ==
    LET call == calls[c]
        results == ProviderResults(call.provider, response.raw)
        stores == response.ok /\ isCacheEnabled(cfg)
        cache1 == IF stores
                  THEN cacheResults(cfg, searchCache, call.key, results, now)
                  ELSE searchCache
        caught == OnProviderFailure(call, BackendError)
    IN
    /\ call.pc = "awaiting"
    /\ searchCache' = cache1
    /\ calls' = [calls EXCEPT ![c] = IF response.ok THEN IdleCall ELSE caught.call]
    /\ invoked' = IF ~response.ok /\ caught.call.pc = "awaiting"
                  THEN CountInvocation(invoked, caught.call.provider, now)
                  ELSE invoked
    /\ sinceEmpty' = IF stores
                     THEN StoreHistory(sinceEmpty, call.key,
                                       OrDefault(cfg.maxSize, DefaultMaxSize))
                     ELSE sinceEmpty
    /\ last' = [ kind |-> "finish", query |-> <<>>,
                 outcome |-> IF response.ok THEN "ok"
                             ELSE IF caught.threw THEN "error" ELSE "retry",
                 err |-> IF response.ok THEN "" ELSE caught.err,
                 results |-> IF response.ok THEN results ELSE <<>>,
                 provider |-> call.provider, fetched |-> FALSE,
                 entry |-> NoEntry, sizeBefore |-> Len(searchCache),
                 cacheSame |-> (cache1 = searchCache), allLimited |-> FALSE,
                 evicted |-> SelectSeq(searchCache,
                                LAMBDA e : CacheIndex(cache1, e.key) = 0),
                 readBefore |-> IF last.kind = "start" /\ last.outcome = "hit"
                                THEN last.entry.key ELSE <<>> ]
    /\ UNCHANGED <<now, cfg, providers, provLimiter, rateLimiters>>

\* WebSearchAPI.clearCache
ClearCache ==
    /\ searchCache # <<>>
    /\ searchCache' = <<>>
    /\ sinceEmpty' = Fresh
    /\ last' = NoStep
    /\ UNCHANGED <<now, cfg, providers, provLimiter, rateLimiters, calls, invoked>>

\* Code outside the aggregator calls checkLimit() on a provider's own limiter
\* (the aggregator never does).
ProviderCheckLimit(name) ==
    /\ name \in DOMAIN provLimiter
    /\ ~IsNoLimiter(provLimiter[name])
    /\ provLimiter' = [provLimiter EXCEPT ![name] = checkLimit(@, now).state]
    /\ last' = NoStep
    /\ UNCHANGED <<now, cfg, providers, rateLimiters, searchCache, calls, invoked,
                   sinceEmpty>>

\* Date.now() advances between two steps of the aggregator.
AggTick ==
    /\ Tick
    /\ last' = NoStep
    /\ UNCHANGED <<cfg, providers, provLimiter, rateLimiters, searchCache, calls,
                   invoked, sinceEmpty>>

AggNext ==
    \/ \E c \in CallIds, q \in AggQueries, o \in AggOptions :
          SearchStart(c, q, o) /\ UNCHANGED <<limiterVars, keyVars, multi, mgr, ui>>
    \/ \E c \in CallIds, r \in Responses :
          SearchFinish(c, r) /\ UNCHANGED <<limiterVars, keyVars, multi, mgr, ui>>
    \/ (ClearCache /\ UNCHANGED <<limiterVars, keyVars, multi, mgr, ui>>)
    \/ (AggTick /\ UNCHANGED <<limiterVars, keyVars, multi, mgr, ui>>)

Spec == AggInit /\ [][AggNext]_vars

\* The aggregator, with code outside it calling the providers' limiters.
LimitedInit == MgrIdle /\ UiIdle /\ \E config \in LimitedConfigs : Started(config)

LimitedNext ==
    \/ AggNext
    \/ \E name \in KnownProviders :
          ProviderCheckLimit(name) /\ UNCHANGED <<limiterVars, keyVars, multi, mgr, ui>>

SpecLimited == LimitedInit /\ [][LimitedNext]_vars

\* ------------------------------------------ overlapping searches: specification

\* Two calls of search() may be in progress at once: the second is made while
\* the first is suspended at  await provider.search(...).
OverlapCallIds == {1, 2}

OverlapConfigs ==
    { Config(TRUE, 2, 2, DefaultProviders),
      Config(TRUE, 2, 3, DefaultProviders) }

OverlapQueries == { <<"a">>, <<"b">> }

OverlapResponses ==
    { [ok |-> FALSE, raw |-> <<>>],
      [ok |-> TRUE, raw |-> <<RawResult(<<"t">>, <<"u">>, 0)>>] }

OverlapInit ==
    /\ MgrIdle
    /\ UiIdle
    /\ \E config \in OverlapConfigs : StartedWith(config, OverlapCallIds)

\* Date.now() advances between two steps of the calls.
OverlapTick ==
    /\ now < MaxOverlapTime
    /\ now' = now + 1
    /\ last' = NoStep
    /\ UNCHANGED <<cfg, providers, provLimiter, rateLimiters, searchCache, calls,
                   invoked, sinceEmpty>>

OverlapNext ==
    \/ \E c \in OverlapCallIds, q \in OverlapQueries, o \in AggOptions :
          SearchStart(c, q, o) /\ UNCHANGED <<limiterVars, keyVars, multi, mgr, ui>>
    \/ \E c \in OverlapCallIds, r \in OverlapResponses :
          SearchFinish(c, r) /\ UNCHANGED <<limiterVars, keyVars, multi, mgr, ui>>
    \/ (ClearCache /\ UNCHANGED <<limiterVars, keyVars, multi, mgr, ui>>)
    \/ (OverlapTick /\ UNCHANGED <<limiterVars, keyVars, multi, mgr, ui>>)

SpecOverlap == OverlapInit /\ [][OverlapNext]_vars

\* ------------------------------------ multi-provider search: specification

\* Three enabled providers, the last one without its credentials.
ThreeProviders ==
    << ProviderEntry("duckduckgo", TRUE, FALSE, RateLimit(1, 60000)),
       ProviderEntry("google", TRUE, TRUE, RateLimit(1, 60000)),
       ProviderEntry("bing", TRUE, FALSE, RateLimit(1, 60000)) >>

MultiConfigs ==
    { Config(TRUE, 1, 1, TwoProviders),
      Config(TRUE, 1, 1, ThreeProviders),
      Config(TRUE, 1, 1, UnknownProvider) }

\* The queries given to performMultiProviderSearch.
MultiQueries == { Null, <<>>, <<" ">>, <<"a">> }

\* The raw results the backends answer with.
MultiRawResults ==
    { RawResult(<<"t">>, <<"u", ":", "t">>, 0),
      RawResult(<<"t", ":", "t">>, <<"u">>, 8),
      RawResult(<<"t">>, <<"u">>, 10),
      RawResult(<<"v">>, <<"u">>, 0) }

MultiRawLists == UNION {[1..n -> MultiRawResults] : n \in 0..MaxRawResults}

MultiResponses ==
    {[ok |-> FALSE, raw |-> <<>>]} \cup {[ok |-> TRUE, raw |-> r] : r \in MultiRawLists}

MultiInit ==
    /\ MgrIdle
    /\ UiIdle
    /\ \E config \in MultiConfigs : Started(config)

\* performMultiProviderSearch(query) is called: every registered provider's
\* search is invoked, and the call suspends at  await Promise.all(...).
MultiStart(query) ==
    /\ multi.pc \in {"idle", "done", "rejected"}
    /\ LET targets == MultiProviders(providers)
           sync == [i \in 1..Len(targets) |->
                      ProviderSearchSync(cfg, targets[i], query)]
       IN multi' = [ pc |-> "waiting", query |-> query,
                     slots |-> [i \in 1..Len(targets) |->
                                  IF sync[i].err # ""
                                  THEN CatchFailure
                                  ELSE PendingSlot],
                     merged |-> <<>>,
                     fetched |-> Cardinality({i \in 1..Len(targets) : sync[i].fetched}),
                     started |-> Len(targets),
                     answers |-> [i \in 1..Len(targets) |-> NoAnswer],
                     order |-> SelectSeq([i \in 1..Len(targets) |-> i],
                                         LAMBDA i : sync[i].err # "") ]
    /\ UNCHANGED <<now, limiterVars, keyVars, aggVars, mgr, ui>>

\* The response to the i-th provider's request arrives: its search returns the
\* results, or throws and the catch turns that into [].
MultiSettle(i, response) ==
    /\ multi.pc = "waiting"
    /\ i \in 1..Len(multi.slots)
    /\ ~multi.slots[i].settled
    /\ multi' = [multi EXCEPT !.slots[i] =
                    IF response.ok
                    THEN SettledSlot(FALSE, ProviderResults(providers[i], response.raw))
                    ELSE CatchFailure,
                    !.answers[i] = response,
                    !.order = Append(@, i)]
    /\ UNCHANGED <<now, limiterVars, keyVars, aggVars, mgr, ui>>

\* Every provider call has settled: Promise.all rejects if one of its promises
\* rejected (the call then throws), else the results are merged and returned.
MultiFinish ==
    /\ multi.pc = "waiting"
    /\ \A i \in 1..Len(multi.slots) : multi.slots[i].settled
    /\ multi' = IF \E i \in 1..Len(multi.slots) : multi.slots[i].rejected
                THEN [multi EXCEPT !.pc = "rejected"]
                ELSE [multi EXCEPT !.pc = "done",
                        !.merged = mergeSearchResults(PromiseAll(multi.slots, multi.order))]
    /\ UNCHANGED <<now, limiterVars, keyVars, aggVars, mgr, ui>>

MultiNext ==
    \/ \E q \in MultiQueries : MultiStart(q)
    \/ \E i \in 1..3, r \in MultiResponses : MultiSettle(i, r)
    \/ MultiFinish

SpecMulti == MultiInit /\ [][MultiNext]_vars

\* ------------------------------------------- WebSearchManager: specification

ManagerConfigs ==
    { Config(TRUE, 1, 2, DefaultProviders),
      Config(FALSE, 1, 2, DefaultProviders) }

\* The values of ui.maxConversationHistory (0 selects the default).
ManagerHistorySizes == {0, 1, 2}

\* The queries given to performAISearch and searchWithFilters.
ManagerQueries == { <<" ">>, <<"a">> }

\* What the backend answers a manager search with.
ManagerResponses ==
    { [ok |-> FALSE, raw |-> <<>>],
      [ok |-> TRUE, raw |-> <<>>],
      [ok |-> TRUE, raw |-> <<RawResult(<<"v">>, <<"u">>, 0), RawResult(<<"t">>, <<"u">>, 8)>>] }

ManagerInit ==
    /\ UiIdle
    /\ \E config \in ManagerConfigs : Started(config)
    /\ \E h \in ManagerHistorySizes : mgr = [NoManager EXCEPT !.uiMax = h]

\* A manager call reaches  await this.webSearchAPI.search(query, options): the
\* search runs to its return, its throw or its suspension.
ManagerSearch(op, query, filters, options) ==
    /\ mgr.pc = "idle"
    /\ SearchStart(1, query, options)
    /\ LET m == [mgr EXCEPT !.op = op, !.query = query, !.filters = filters,
                            !.results = <<>>]
       IN mgr' = IF last'.outcome = "awaiting"
                 THEN [m EXCEPT !.pc = "searching", !.out = NoOut]
                 ELSE AfterSearch(m, last'.outcome = "error", last'.results)
    /\ UNCHANGED <<limiterVars, keyVars, multi, ui>>

\* performAISearch(query) is called.
PerformAISearch(query) ==
    /\ mgr.serial < MaxRecorded
    /\ ManagerSearch("ai", query, NoFilters, AIOptions)

\* searchWithFilters(query, filters) is called.
SearchWithFilters(query, filters) ==
    ManagerSearch("filtered", query, filters, FilterOptions(filters))

\* The backend's response arrives: search() resumes and settles, and the
\* manager call resumes after it.
ManagerSearchDone(response) ==
    /\ mgr.pc = "searching"
    /\ SearchFinish(1, response)
    /\ mgr' = AfterSearch(mgr, last'.outcome = "error", last'.results)
    /\ UNCHANGED <<limiterVars, keyVars, multi, ui>>

\* ollamaAPI.chat settles: analyzeSearchResults returns, the record is put
\* into the history and returned.
ManagerChatDone(chatOk) ==
    /\ mgr.pc = "analyzing"
    /\ LET a == analyzeSearchResults(chatOk)
           record == [ query |-> mgr.query, results |-> mgr.results,
                       analysis |-> a.analysis, serial |-> mgr.serial + 1 ]
       IN mgr' = IF a.threw
                 THEN [mgr EXCEPT !.pc = "idle", !.op = "none", !.results = <<>>,
                          !.out = [NoOut EXCEPT !.kind = "ai", !.outcome = "error",
                                      !.query = mgr.query, !.searched = mgr.results,
                                      !.chatCalls = 1, !.chatFailed = ~chatOk]]
                 ELSE [mgr EXCEPT !.pc = "idle", !.op = "none", !.results = <<>>,
                          !.history = addToSearchHistory(mgr.history, record, mgr.uiMax),
                          !.serial = mgr.serial + 1,
                          !.sinceClear = mgr.sinceClear + 1,
                          !.out = [NoOut EXCEPT !.kind = "ai", !.outcome = "ok",
                                      !.query = mgr.query, !.searched = mgr.results,
                                      !.results = record.results,
                                      !.analysis = record.analysis,
                                      !.chatCalls = 1, !.chatFailed = ~chatOk,
                                      !.recorded = TRUE]]
    /\ UNCHANGED <<now, limiterVars, keyVars, aggVars, multi, ui>>

\* clearSearchHistory
ClearSearchHistory ==
    /\ mgr.history # <<>>
    /\ mgr' = [mgr EXCEPT !.history = <<>>, !.sinceClear = 0, !.out = NoOut]
    /\ UNCHANGED <<now, limiterVars, keyVars, aggVars, multi, ui>>

ManagerNext ==
    \/ \E q \in ManagerQueries : PerformAISearch(q)
    \/ \E q \in ManagerQueries, f \in ManagerFilters : SearchWithFilters(q, f)
    \/ \E r \in ManagerResponses : ManagerSearchDone(r)
    \/ \E ok \in BOOLEAN : ManagerChatDone(ok)
    \/ ClearSearchHistory

SpecManager == ManagerInit /\ [][ManagerNext]_vars

\* -------------------------------------------- provider registry: specification

\* An unknown name, a disabled provider and two enabled ones, the keyed one
\* without its credentials.
MixedProviders ==
    << ProviderEntry("yahoo", TRUE, FALSE, RateLimit(1, 60000)),
       ProviderEntry("google", FALSE, TRUE, RateLimit(1, 60000)),
       ProviderEntry("bing", TRUE, FALSE, NoRateLimit),
       ProviderEntry("duckduckgo", TRUE, FALSE, RateLimit(1, 60000)) >>

RegistryConfigs ==
    { Config(TRUE, 1, 1, MixedProviders),
      Config(TRUE, 1, 1, TwoProviders),
      Config(TRUE, 1, 1, UnknownProvider) }

RegistryQueries == { Null, <<"a">>, <<"A", " ">> }

RegistryInit == MgrIdle /\ UiIdle /\ \E config \in RegistryConfigs : Started(config)

\* getSearchSuggestions(query): the first registered provider's getSuggestions
\* is asked unless the query is empty or shorter than two characters.
GetSearchSuggestions(query) ==
    /\ last' = [NoStep EXCEPT !.kind = "suggest",
                              !.query = query,
                              !.provider = IF IsNull(query) \/ Len(query) < 2
                                              \/ providers = <<>>
                                           THEN "none" ELSE providers[1]]
    /\ last' # last
    /\ UNCHANGED <<now, cfg, providers, provLimiter, rateLimiters, searchCache, calls,
                   invoked, sinceEmpty>>

\* The operations on the aggregator and the manager, in any interleaving.
RegistryNext ==
    \/ \E q \in RegistryQueries :
          /\ mgr.pc = "idle"
          /\ SearchStart(1, q, <<>>)
          /\ UNCHANGED <<limiterVars, keyVars, multi, mgr, ui>>
    \/ \E r \in Responses :
          /\ mgr.pc = "idle"
          /\ SearchFinish(1, r)
          /\ UNCHANGED <<limiterVars, keyVars, multi, mgr, ui>>
    \/ (ClearCache /\ UNCHANGED <<limiterVars, keyVars, multi, mgr, ui>>)
    \/ \E q \in RegistryQueries :
          GetSearchSuggestions(q) /\ UNCHANGED <<limiterVars, keyVars, multi, mgr, ui>>
    \/ \E q \in RegistryQueries : MultiStart(q)
    \/ \E i \in 1..3, r \in Responses : MultiSettle(i, r)
    \/ MultiFinish
    \/ \E q \in RegistryQueries \ {Null} : SearchWithFilters(q, NoFilters)
    \/ \E r \in Responses : ManagerSearchDone(r)

SpecRegistry == RegistryInit /\ [][RegistryNext]_vars

\* ---------------------------------------------------- UI sections: specification

\* toggleSidebar / toggleUserSection / toggleChatSection
ToggleSection(s) ==
    /\ ui' = IF canHideSection(ui.state, s)
             THEN LET newState == ~ui.state[s]
                      state1 == [ui.state EXCEPT ![s] = newState]
                  IN [ui EXCEPT !.state = state1,
                                !.saved = state1,
                                !.collapsed = toggleSection(ui.collapsed, s, newState),
                                !.last = [op |-> "toggle", section |-> s,
                                          pre |-> ui.state, blocked |-> FALSE]]
             ELSE [ui EXCEPT !.last = [op |-> "toggle", section |-> s,
                                       pre |-> ui.state, blocked |-> TRUE]]
    /\ UNCHANGED <<now, limiterVars, keyVars, aggVars, multi, mgr>>

\* restoreSidebar / restoreUserSection / restoreChatSection
RestoreSection(s) ==
    /\ ui' = IF canHideSection(ui.state, s)
             THEN LET state1 == [ui.state EXCEPT ![s] = TRUE]
                  IN [ui EXCEPT !.state = state1,
                                !.saved = state1,
                                !.collapsed = toggleSection(ui.collapsed, s, TRUE),
                                !.last = [op |-> "restore", section |-> s,
                                          pre |-> ui.state, blocked |-> FALSE]]
             ELSE [ui EXCEPT !.last = [op |-> "restore", section |-> s,
                                       pre |-> ui.state, blocked |-> TRUE]]
    /\ UNCHANGED <<now, limiterVars, keyVars, aggVars, multi, mgr>>

\* peekSidebar(show) / peekUserSection(show) / peekChatSection(show):
\* UIManager.peekSection acts on a collapsed section only.
PeekSection(s, show) ==
    /\ ui.collapsed[s]
    /\ ui.revealed[s] # show
    /\ ui' = [ui EXCEPT !.revealed[s] = show,
                        !.last = [op |-> "peek", section |-> s,
                                  pre |-> ui.state, blocked |-> FALSE]]
    /\ UNCHANGED <<now, limiterVars, keyVars, aggVars, multi, mgr>>

\* resetModel removes the saved state from localStorage.
ResetModel ==
    /\ ui.saved # NothingSaved
    /\ ui' = [ui EXCEPT !.saved = NothingSaved,
                        !.last = [op |-> "reset", section |-> "",
                                  pre |-> ui.state, blocked |-> FALSE]]
    /\ UNCHANGED <<now, limiterVars, keyVars, aggVars, multi, mgr>>

\* The page is loaded again: the constructor sets the default uiState,
\* loadState merges the saved one over it, applySavedUIState sets the classes.
Reload ==
    /\ LET state1 == IF ui.saved = NothingSaved THEN AllVisible ELSE ui.saved
       IN ui' = [ state |-> state1,
                  collapsed |-> [s \in Sections |-> ~state1[s]],
                  revealed |-> NoneRevealed,
                  saved |-> ui.saved,
                  last |-> NoUiStep ]
    /\ UNCHANGED <<now, limiterVars, keyVars, aggVars, multi, mgr>>

UiInit ==
    /\ now = 0
    /\ LimiterIdle
    /\ KeyIdle
    /\ AggIdle
    /\ MultiIdle
    /\ MgrIdle
    /\ ui = InitialUi

UiNext ==
    \/ \E s \in Sections : ToggleSection(s)
    \/ \E s \in Sections : RestoreSection(s)
    \/ \E s \in Sections, show \in BOOLEAN : PeekSection(s, show)
    \/ ResetModel
    \/ Reload

SpecUi == UiInit /\ [][UiNext]_vars

\* ------------------------------------------------- rate limiter: properties

\* C2: a checkLimit() call made no later than resetTime, after at least
\* `requests` calls were already made in the current window, returns false; a
\* checkLimit() call made after resetTime returns true and leaves the counter at 1.
C2_LimitThenRollover ==
    rlLast.op = "checkLimit" =>
        /\ (rlLast.at <= rlLast.pre.resetTime /\ rlLast.callsBefore >= rlLast.pre.requests)
               => rlLast.ret = FALSE
        /\ (rlLast.at > rlLast.pre.resetTime)
               => (rlLast.ret = TRUE /\ limiter.currentRequests = 1)

\* A full window was used up and the first call after it was admitted.
C2_Witness ==
    /\ rlLast.op = "checkLimit"
    /\ rlLast.pre.currentRequests = rlLast.pre.requests
    /\ rlLast.callsBefore > rlLast.pre.requests
    /\ rlLast.at > rlLast.pre.resetTime
    /\ rlLast.ret = TRUE
    /\ limiter.currentRequests = 1

\* C3: the counter stays within 0..requests; a rejected call leaves the counter
\* unchanged; the counter is set back to 0 only by a checkLimit() made at a
\* time strictly after resetTime or by reset().
C3_CounterInvariant ==
    /\ limiter.currentRequests >= 0
    /\ limiter.currentRequests <= limiter.requests
    /\ (rlLast.op = "checkLimit" /\ ~rlLast.ret)
          => limiter.currentRequests = rlLast.pre.currentRequests
    /\ (rlLast.op = "checkLimit" /\ rlLast.rolled)
          => rlLast.at > rlLast.pre.resetTime
    /\ (rlLast.op # "none" /\ limiter.currentRequests <= rlLast.pre.currentRequests)
          => \/ rlLast.op = "reset"
             \/ rlLast.op = "checkLimit" /\ ~rlLast.ret
             \/ rlLast.op = "checkLimit" /\ rlLast.at > rlLast.pre.resetTime

\* A call was rejected with the counter at the limit, at the window's last instant.
C3_Witness ==
    /\ rlLast.op = "checkLimit"
    /\ ~rlLast.ret
    /\ rlLast.at = rlLast.pre.resetTime
    /\ limiter.currentRequests = limiter.requests

\* C20: after reset() the counter is 0 and resetTime is the time of the reset
\* plus window, whatever the limiter's state was; the first `requests`
\* checkLimit() calls made in the window reset() started are admitted.
C20_ResetRestartsWindow ==
    /\ rlLast.op = "reset" =>
          /\ limiter.currentRequests = 0
          /\ limiter.resetTime = rlLast.at + limiter.window
    /\ (rlLast.op = "checkLimit" /\ rlLast.afterReset
          /\ rlLast.callsBefore < rlLast.pre.requests)
       => /\ rlLast.ret = TRUE
          /\ limiter.currentRequests = rlLast.callsBefore + 1
             \/ rlLast.at > rlLast.pre.resetTime

\* The window was restarted by reset() and its second and last admissible
\* call was admitted, after time had passed.
C20_Witness ==
    /\ rlLast.op = "checkLimit"
    /\ rlLast.afterReset
    /\ rlLast.at > 0
    /\ rlLast.at <= rlLast.pre.resetTime
    /\ rlLast.pre.requests = 2
    /\ rlLast.callsBefore = 1
    /\ rlLast.ret = TRUE
    /\ limiter.currentRequests = 2

\* --------------------------------------------------- cache keys: properties

\* The claim's normalization, trim first and lowercase second.
LowercaseOfTrim(q) == toLowerCase(trim(q))

\* C6: two inputs get the same key exactly when their normalized queries
\* (lowercase of trim) are equal and their options serialize identically.
C6_KeyEquality ==
    keyOut # <<>> =>
        ( (keyOut[1] = keyOut[2])
          <=> ( /\ LowercaseOfTrim(keyIn.q1) = LowercaseOfTrim(keyIn.q2)
                /\ JSONObject(keyIn.o1) = JSONObject(keyIn.o2) ) )

\* Two different query texts got the same key.
C6_Witness ==
    /\ keyOut # <<>>
    /\ keyIn.q1 = <<" ", "A">>
    /\ keyIn.q2 = <<"a", " ">>
    /\ keyIn.o1 = keyIn.o2
    /\ keyOut[1] = keyOut[2]

\* --------------------------------------------------- aggregator: properties

\* C1: within a provider's rate-limit window, search() invokes the provider's
\* search at most rateLimit.requests times.
C1_RateLimitEnforced ==
    \A name \in DOMAIN invoked :
        ~IsNoLimiter(provLimiter[name]) => invoked[name] <= provLimiter[name].requests

MarkCached(results) ==
    [i \in 1..Len(results) |-> [results[i] EXCEPT !.cached = TRUE]]

\* C5: a cache hit returns the result set the earlier search stored, every
\* result marked cached = true.
C5_HitMarkedCached ==
    (last.kind = "start" /\ last.outcome = "hit")
    => last.results = MarkCached(last.entry.results)

\* C7: a lookup later than timestamp + ttl is a miss and removes the entry, so
\* the cache has one entry less; a lookup up to timestamp + ttl is a hit.
C7_ExpiryOnLookup ==
    (last.kind = "start" /\ last.entry # NoEntry) =>
        /\ (now > last.entry.timestamp + cfg.ttl) =>
              /\ last.outcome # "hit"
              /\ CacheIndex(searchCache, last.entry.key) = 0
              /\ Len(searchCache) = last.sizeBefore - 1
        /\ (now <= last.entry.timestamp + cfg.ttl) =>
              /\ last.outcome = "hit"
              /\ last.results = last.entry.results
              /\ last.cacheSame

\* An entry is looked up one millisecond after its ttl ran out.
C7_Witness ==
    /\ last.kind = "start"
    /\ last.entry # NoEntry
    /\ now = last.entry.timestamp + cfg.ttl + 1
    /\ last.outcome = "awaiting"
    /\ Len(searchCache) = last.sizeBefore - 1

\* C8: after maxSize + 1 distinct keys were stored into an empty cache, the
\* cache holds maxSize entries: all but the first of those keys.
C8_EvictsFirstInserted ==
    (sinceEmpty.ok /\ Len(sinceEmpty.keys) = cfg.maxSize + 1) =>
        /\ Len(searchCache) = cfg.maxSize
        /\ CacheIndex(searchCache, sinceEmpty.keys[1]) = 0
        /\ \A i \in 2..Len(sinceEmpty.keys) :
              CacheIndex(searchCache, sinceEmpty.keys[i]) # 0

\* Three distinct keys were stored into an empty cache of maxSize 2.
C8_Witness ==
    /\ cfg.maxSize = 2
    /\ sinceEmpty.ok
    /\ Len(sinceEmpty.keys) = 3
    /\ Len(searchCache) = 2

\* The errors validateQuery throws.
ValidationErrors == {"Query must be a non-empty string", "Query cannot be empty"}

\* C9: with a provider registered, search() of "", of a whitespace-only string
\* or of null fails with the provider's validation error, sends no request and
\* leaves the cache unchanged.
C9_InvalidQueryRejected ==
    (last.kind = "start" /\ providers # <<>>
       /\ (IsNull(last.query) \/ last.query = <<>> \/ last.query = <<" ">>))
    => /\ last.outcome = "error"
       /\ last.err \in ValidationErrors
       /\ ~last.fetched
       /\ last.cacheSame

\* The errors a provider's search throws.
ProviderErrors == ValidationErrors \cup {"requires API key", BackendError}

\* C14: when the selected provider's search throws, search() throws that error:
\* the call ends, and no other provider's search is invoked.
C14_ErrorPropagates ==
    /\ last.kind = "finish" => last.outcome \in {"ok", "error"}
    /\ (last.outcome = "error" /\ last.provider # "none") =>
          /\ last.err \in ProviderErrors
          /\ last.kind = "finish" => last.err = BackendError
          /\ calls[1].pc = "idle"
          /\ \A name \in Range(providers) \ {last.provider} : invoked[name] = 0

\* The first of two registered providers failed and search() threw its error.
C14_Witness ==
    /\ last.kind = "finish"
    /\ last.outcome = "error"
    /\ last.err = BackendError
    /\ Len(providers) = 2
    /\ last.provider = providers[1]
    /\ invoked[providers[1]] > 0
    /\ invoked[providers[2]] = 0

\* ------------------------------------------ multi-provider search: properties

\* The results the providers returned, concatenated in registration order.
MultiFlat == Concat([i \in 1..Len(multi.slots) |-> multi.slots[i].results])

SamePair(a, b) == a.url = b.url /\ a.title = b.title

\* C10: the merged list holds, for every (url, title) pair some provider
\* returned, exactly one result with that pair: its first occurrence.
C10_DedupByPair ==
    multi.pc = "done" =>
        \A i \in 1..Len(MultiFlat) :
            LET first == CHOOSE j \in 1..i :
                            /\ SamePair(MultiFlat[j], MultiFlat[i])
                            /\ \A k \in 1..(j - 1) : ~SamePair(MultiFlat[k], MultiFlat[i])
            IN /\ Cardinality({m \in 1..Len(multi.merged) :
                                  SamePair(multi.merged[m], MultiFlat[i])}) = 1
               /\ \E m \in 1..Len(multi.merged) : multi.merged[m] = MultiFlat[first]

\* The results of the provider calls that succeeded, from what the backends
\* answered, in registration order.
SucceededResults ==
    [ i \in 1..Len(multi.answers) |->
        IF multi.answers[i].ok
        THEN ProviderResults(providers[i], multi.answers[i].raw)
        ELSE <<>> ]

\* C11: performMultiProviderSearch never throws because a provider failed: a
\* provider that failed contributes no result, the list returned is the merge
\* of the results of the providers that succeeded, and it is empty when every
\* provider failed.
C11_FailuresTolerated ==
    /\ multi.pc # "rejected"
    /\ multi.pc = "done" =>
          /\ \A i \in 1..Len(multi.slots) :
                ~multi.answers[i].ok => multi.slots[i].results = <<>>
          /\ multi.merged = mergeSearchResults(SucceededResults)
          /\ (\A i \in 1..Len(multi.answers) : ~multi.answers[i].ok)
                => multi.merged = <<>>

\* The first provider failed, the second returned two results, and exactly
\* those two were returned.
C11_Witness ==
    /\ multi.pc = "done"
    /\ Len(providers) = 2
    /\ multi.slots[1].failed
    /\ multi.answers[2].ok
    /\ Len(multi.slots[2].results) = 2
    /\ Len(multi.merged) = 2
    /\ Range(multi.merged) = Range(multi.slots[2].results)

\* The position of a (returned) result in the deduplicated concatenation.
FlatPosition(result) ==
    CHOOSE j \in 1..Len(Dedup(MultiFlat, {})) : Dedup(MultiFlat, {})[j] = result

\* C15: the list returned is in non-increasing order of relevance, and results
\* of equal relevance are in the order of the concatenation.
C15_SortedStable ==
    multi.pc = "done" =>
        \A m \in 1..Len(multi.merged), n \in 1..Len(multi.merged) :
            m < n =>
                /\ multi.merged[m].relevance >= multi.merged[n].relevance
                /\ multi.merged[m].relevance = multi.merged[n].relevance
                      => FlatPosition(multi.merged[m]) < FlatPosition(multi.merged[n])

\* The sort moved a result forward, and two results of equal relevance from
\* different providers were returned.
C15_Witness ==
    /\ multi.pc = "done"
    /\ multi.merged # Dedup(MultiFlat, {})
    /\ \E m \in 1..Len(multi.merged), n \in 1..Len(multi.merged) :
          /\ m < n
          /\ multi.merged[m].relevance = multi.merged[n].relevance
          /\ multi.merged[m].provider # multi.merged[n].provider

\* C16: every registered provider's search is started before the call waits,
\* the merge happens only when every provider call has settled, and the list
\* returned does not depend on the order in which the calls settled.
C16_AllStartedAllSettled ==
    /\ multi.pc = "waiting" =>
          /\ multi.started = Len(providers)
          /\ Len(multi.slots) = Len(providers)
          /\ multi.merged = <<>>
    /\ multi.pc = "done" =>
          /\ \A i \in 1..Len(multi.slots) : multi.slots[i].settled
          /\ Len(multi.order) = Len(providers)
          /\ multi.merged = mergeSearchResults(SucceededResults)

\* The second provider answered before the first, both with the same
\* (url, title), and the first provider's result is the one returned.
C16_Witness ==
    /\ multi.pc = "done"
    /\ multi.order = <<2, 1>>
    /\ Len(multi.slots[1].results) = 1
    /\ Len(multi.slots[2].results) = 1
    /\ DedupKey(multi.slots[1].results[1]) = DedupKey(multi.slots[2].results[1])
    /\ multi.merged = multi.slots[1].results

\* ------------------------------------------------ WebSearchManager: properties

\* C12: when the search returned no result, performAISearch returns results []
\* and the no-results analysis text, and the chat is not called.
C12_NoResultsNoChat ==
    (mgr.out.kind = "ai" /\ mgr.out.outcome # "error" /\ mgr.out.searched = <<>>)
    => /\ mgr.out.outcome = "ok"
       /\ mgr.out.results = <<>>
       /\ mgr.out.analysis = NoResultsAnalysis
       /\ mgr.out.chatCalls = 0

\* The backend answered with no result and performAISearch returned.
C12_Witness ==
    /\ mgr.out.kind = "ai"
    /\ mgr.out.outcome = "ok"
    /\ mgr.out.searched = <<>>
    /\ last.kind = "finish"
    /\ mgr.out.analysis = NoResultsAnalysis

\* C13: when the search returned results and the chat call threw,
\* performAISearch returns the search results unchanged with the fallback
\* analysis text; it does not throw.
C13_ChatFailureFallsBack ==
    (mgr.out.kind = "ai" /\ mgr.out.chatFailed)
    => /\ mgr.out.outcome = "ok"
       /\ mgr.out.results = mgr.out.searched
       /\ mgr.out.results # <<>>
       /\ mgr.out.analysis = FallbackAnalysis

\* The chat call failed after a search with two results.
C13_Witness ==
    /\ mgr.out.kind = "ai"
    /\ mgr.out.chatFailed
    /\ Len(mgr.out.results) = 2
    /\ mgr.out.analysis = FallbackAnalysis

\* C17: searchHistory holds the latest recorded searches, the most recent
\* first, at most maxHistory of them: the oldest are the ones dropped.
C17_HistoryBounded ==
    LET maxHistory == IF mgr.uiMax = 0 THEN DefaultMaxHistory ELSE mgr.uiMax IN
    /\ Len(mgr.history) <= maxHistory
    /\ Len(mgr.history) = Min(mgr.sinceClear, maxHistory)
    /\ \A i \in 1..Len(mgr.history) : mgr.history[i].serial = mgr.serial - i + 1

\* A third search was recorded into a history bounded by two.
C17_Witness ==
    /\ mgr.uiMax = 2
    /\ mgr.sinceClear = 3
    /\ mgr.out.recorded
    /\ Len(mgr.history) = 2
    /\ mgr.history[1].serial = 3

\* The claim's post-filters on one result.
PassesFilters(result, filters) ==
    /\ filters.minRelevance # 0 => result.relevance >= filters.minRelevance
    /\ filters.contentType # "" => ContentTypeOf(result) = filters.contentType

\* C18: searchWithFilters returns, in order, the results of search(query,
\* searchOptions) that pass the minRelevance and contentType filters given, and
\* the cache entry of that search holds the unfiltered results.
C18_FilteredSubsequence ==
    (mgr.out.kind = "filtered" /\ mgr.out.outcome = "ok")
    => LET key == CacheKeys[<<mgr.out.query, FilterOptions(mgr.out.filters)>>]
           idx == CacheIndex(searchCache, key)
       IN /\ mgr.out.results =
                SelectSeq(mgr.out.searched,
                          LAMBDA r : PassesFilters(r, mgr.out.filters))
          /\ isCacheEnabled(cfg) =>
                /\ idx # 0
                /\ searchCache[idx].results = mgr.out.searched

\* A minRelevance filter kept the result at the threshold and dropped the one
\* below it; the cache entry holds both.
C18_Witness ==
    /\ mgr.out.kind = "filtered"
    /\ mgr.out.outcome = "ok"
    /\ mgr.out.filters.minRelevance = 8
    /\ Len(mgr.out.searched) = 2
    /\ Len(mgr.out.results) = 1
    /\ mgr.out.results[1].relevance = 8
    /\ Len(searchCache) > 0

\* ------------------------------------------------ provider registry: properties

\* The names of the configuration's entries that are enabled and known, in
\* configuration order.
EnabledKnownNames ==
    LET on == SelectSeq(cfg.providers,
                        LAMBDA e : e.enabled /\ e.name \in {"duckduckgo", "google", "bing"})
    IN [i \in 1..Len(on) |-> on[i].name]

\* C19: the registry holds exactly the enabled providers with a known name, in
\* configuration order, in every state: no operation adds, removes or
\* reorders an entry.
C19_RegistryFixed ==
    /\ providers = EnabledKnownNames
    /\ DOMAIN provLimiter = Range(providers)

\* After a multi-provider search, a search and a filtered search, the registry
\* of the mixed configuration holds its two enabled known providers.
C19_Witness ==
    /\ Len(cfg.providers) = 4
    /\ providers = <<"bing", "duckduckgo">>
    /\ multi.pc = "done"
    /\ Len(multi.merged) > 0
    /\ mgr.out.kind = "filtered"
    /\ last.kind = "suggest"

\* A query that is null, empty or only whitespace.
IsBlank(query) == IF IsNull(query) THEN TRUE ELSE Len(trim(query)) = 0

\* C29: performMultiProviderSearch with a null, empty or whitespace query sends
\* no request, leaves no provider call pending, does not throw, and returns [].
C29_BlankQueryReturnsEmpty ==
    (multi.pc # "idle" /\ IsBlank(multi.query)) =>
        /\ multi.pc # "rejected"
        /\ multi.fetched = 0
        /\ \A i \in 1..Len(multi.slots) : multi.slots[i].settled /\ multi.slots[i].failed
        /\ multi.pc = "done" => multi.merged = <<>>

\* The call with a null query has returned, three providers registered.
C29_Witness ==
    /\ multi.pc = "done"
    /\ IsNull(multi.query)
    /\ multi.started = 3
    /\ multi.merged = <<>>

\* Every entry of the cache after the step was in it, as it is, before the step.
NothingStored(before, after) ==
    \A i \in 1..Len(after) : \E j \in 1..Len(before) : before[j] = after[i]

\* C22: a search() that throws (null query, no provider, rate limit,
\* validation, provider error) creates or refreshes no entry; an entry is
\* created or refreshed only by the return of a successful provider call; with
\* the cache disabled no lookup is made and the cache is never written.
C22_StoreOnlyAfterSuccess ==
    [][ /\ (last'.kind \in {"start", "finish"} /\ last'.outcome = "error")
              => NothingStored(searchCache, searchCache')
        /\ ~NothingStored(searchCache, searchCache')
              => (last'.kind = "finish" /\ last'.outcome = "ok")
        /\ cfg.cacheEnabled = FALSE
              => /\ searchCache' = searchCache
                 /\ searchCache = <<>>
                 /\ last'.kind = "start"
                       => (last'.outcome # "hit" /\ last'.entry = NoEntry) ]_vars

\* A provider call failed while the cache holds an entry, which is as it was.
C22_Witness ==
    /\ last.kind = "finish"
    /\ last.outcome = "error"
    /\ last.err = BackendError
    /\ last.cacheSame
    /\ searchCache # <<>>

\* C23: a search() that finds a live entry sends no request, selects no
\* provider, changes no limiter, starts no call, and leaves the cache (its
\* entries, their timestamps and their order) as it was.
C23_HitChangesNothing ==
    [][ (last'.kind = "start" /\ last'.outcome = "hit") =>
          /\ searchCache' = searchCache
          /\ rateLimiters' = rateLimiters
          /\ provLimiter' = provLimiter
          /\ invoked' = invoked
          /\ calls' = calls
          /\ last'.provider = "none"
          /\ ~last'.fetched
          /\ \E i \in 1..Len(searchCache) : searchCache[i] = last'.entry
          /\ ~isCacheExpired(cfg, last'.entry.timestamp, now) ]_vars

\* A hit on the first of two entries, stored before the current time.
C23_Witness ==
    /\ last.kind = "start"
    /\ last.outcome = "hit"
    /\ Len(searchCache) = 2
    /\ searchCache[1] = last.entry
    /\ last.entry.timestamp < now

C25_OneInvocationPerKey ==
    \A c1 \in DOMAIN calls, c2 \in DOMAIN calls :
        (c1 # c2 /\ calls[c1].pc = "awaiting" /\ calls[c2].pc = "awaiting")
            => calls[c1].key # calls[c2].key

\* C26: the entry a store evicts has the least timestamp of the entries the
\* cache held when the store began.
C26_EvictsOldestTimestamp ==
    [][ (last'.kind = "finish" /\ last'.evicted # <<>>) =>
          \A i \in 1..Len(searchCache) :
             last'.evicted[1].timestamp <= searchCache[i].timestamp ]_vars

\* The keys of the calls of search() that return or throw in the step.
FinishedKeys == {calls[c].key : c \in {d \in DOMAIN calls : calls'[d] # calls[d]}}

QuotaUsed(limiters, own, name) ==
    IF name \in DOMAIN limiters /\ ~IsNoLimiter(limiters[name])
    THEN limiters[name].currentRequests
    ELSE IF IsNoLimiter(own[name]) THEN 0 ELSE own[name].currentRequests

\* C27: a search() that sends a request to a provider raises that provider's
\* request counter by exactly one and leaves every other provider's counter
\* as it was.
C27_OneUnitPerSearch ==
    [][ (last'.kind = "start" /\ last'.fetched) =>
          \A p \in Range(providers) :
             QuotaUsed(rateLimiters', provLimiter', p) =
                QuotaUsed(rateLimiters, provLimiter, p)
                   + (IF p = last'.provider THEN 1 ELSE 0) ]_vars

\* The requests every registered provider's search would send for a query.
RequestsOfAll(query) ==
    Cardinality({i \in 1..Len(providers) :
                    ProviderSearchSync(cfg, providers[i], query).fetched})

\* The cache holds an entry of the query (no options) that has not expired.
HasLiveEntry(query) ==
    /\ ~IsNull(query)
    /\ \E i \in 1..Len(searchCache) :
          /\ searchCache[i].key = CacheKeys[<<query, <<>>>>]
          /\ ~isCacheExpired(cfg, searchCache[i].timestamp, now)

\* C28: every step of performMultiProviderSearch leaves the cache, the
\* aggregator's rateLimiters and the providers' limiters unchanged, and its
\* call invokes every registered provider's search, a live cache entry of the
\* query or not.
C28_MultiBypassesCacheAndLimits ==
    [][ multi' # multi =>
          /\ searchCache' = searchCache
          /\ rateLimiters' = rateLimiters
          /\ provLimiter' = provLimiter
          /\ (multi'.pc = "waiting" /\ multi.pc # "waiting") =>
                /\ multi'.started = Len(providers)
                /\ Len(multi'.slots) = Len(providers)
                /\ multi'.fetched = RequestsOfAll(multi'.query) ]_vars

\* Two providers were sent the query although the cache holds a live entry of it.
C28_Witness ==
    /\ multi.pc = "waiting"
    /\ multi.started = 2
    /\ multi.fetched = 2
    /\ HasLiveEntry(multi.query)

\* ----------------------------------------------------- UI sections: properties

\* The sections visible in a uiState.
VisibleSections(state) == {s \in Sections : state[s]}

\* C30: at least one section is visible; a toggle of the only visible section
\* leaves uiState unchanged; a hidden section is made visible by its toggle
\* and by its restore.
C30_OneSectionVisible ==
    /\ VisibleSections(ui.state) # {}
    /\ (ui.last.op = "toggle" /\ VisibleSections(ui.last.pre) = {ui.last.section})
          => ui.state = ui.last.pre
    /\ \A s \in Sections : ~ui.state[s] => canHideSection(ui.state, s)
    /\ (ui.last.op \in {"toggle", "restore"} /\ ~ui.last.pre[ui.last.section])
          => ui.state[ui.last.section]

\* The toggle of the only visible section was refused.
C30_Witness ==
    /\ ui.last.op = "toggle"
    /\ ui.last.blocked
    /\ VisibleSections(ui.state) = {"chatSectionVisible"}
    /\ ui.last.section = "chatSectionVisible"

====
